---- MODULE Spec2Model ----
(***************************************************************************)
(* A model of two pieces of python-telegram-bot:                           *)
(*   - MessageEntity.adjust_message_entities_to_utf_16                     *)
(*       (src/telegram/_messageentity.py), stepped statement by statement  *)
(*       over a heap of MessageEntity objects;                             *)
(*   - PaidMedia.de_json and its variants (src/telegram/_paidmedia.py).    *)
(* Spec       runs adjust_message_entities_to_utf_16.                      *)
(* SpecDecode runs the de_json class methods.                              *)
(***************************************************************************)
EXTENDS Integers, Sequences, FiniteSets, TLC

VARIABLES
    text,                  \* the str argument: a sequence of code points
    entities,              \* the list argument: a sequence of object references
    heap,                  \* the MessageEntity objects, indexed by reference
    pc,                    \* per thread: the statement it is at
    positions,             \* per thread: local of adjust_message_entities_to_utf_16
    i,                     \* per thread: index of the enumerate() loop
    accumulated_length,    \* per thread
    position_translation,  \* per thread: the dict position -> utf-16 length
    out,                   \* per thread: the list being built
    j,                     \* per thread: how many entities the second loop has taken
    entity,                \* per thread: loop variable of the second loop
    translated_positions,  \* per thread
    translated_length,     \* per thread
    new_entity,            \* per thread: reference of the copy
    raised,                \* per thread: the exception that ended the call, or "None"
    mapping,               \* the data argument of de_json: None or Some(dict)
    entry,                 \* per thread: the class de_json was called on
    cls,                   \* per thread: cls of the running de_json
    data,                  \* per thread: the local data of the running de_json
    ctor_kwargs,           \* per thread: the keyword arguments the constructor got
    result                 \* per thread: what the call returned

vars == <<text, entities, heap, pc, positions, i, accumulated_length,
          position_translation, out, j, entity, translated_positions,
          translated_length, new_entity, raised, mapping, entry, cls, data,
          ctor_kwargs, result>>

adjustLocals == <<positions, i, accumulated_length, position_translation, out, j,
                  entity, translated_positions, translated_length, new_entity>>

decodeLocals == <<cls, data, ctor_kwargs>>

Threads == {"t1", "t2"}

----------------------------------------------------------------------------
(* Bounds of the inputs.                                                   *)

MaxLen == 2        \* code points of a text
MaxEntities == 2   \* entities of a call
MaxPhotos == 2     \* size descriptors of a "photo" list
MaxShared == 1     \* entities of a call that two threads make at once

----------------------------------------------------------------------------
(* Python values.                                                          *)

Min(a, b) == IF a < b THEN a ELSE b

Range(s) == {s[n] : n \in DOMAIN s}

\* str[a:b] for 0 <= a, 0 <= b: slicing clamps both ends to len(str).
Slice(s, a, b) ==
    LET lo == Min(a, Len(s))
        hi == Min(b, Len(s))
    IN  IF lo >= hi THEN <<>> ELSE SubSeq(s, lo + 1, hi)

\* The UTF-16 code units of one code point: itself in the BMP, a surrogate
\* pair above it.
Utf16Units(cp) ==
    IF cp < 65536
    THEN <<cp>>
    ELSE <<55296 + ((cp - 65536) \div 1024), 56320 + ((cp - 65536) % 1024)>>

RECURSIVE Utf16LeBytes(_)
Utf16LeBytes(units) ==
    IF units = <<>> THEN <<>>
    ELSE <<Head(units) % 256, Head(units) \div 256>> \o Utf16LeBytes(Tail(units))

\* A encode("utf-16") that writes the byte order mark in front.
RECURSIVE encode_utf_16_bom(_)
encode_utf_16_bom(s) ==
    IF s = <<>> THEN <<255, 254>>
    ELSE encode_utf_16_bom(SubSeq(s, 1, Len(s) - 1)) \o Utf16LeBytes(Utf16Units(s[Len(s)]))

\* str.encode("utf-16-le"): the bytes, little end first, no byte order mark.
RECURSIVE encode_utf_16_le(_)
encode_utf_16_le(s) ==
    IF s = <<>> THEN <<>>
    ELSE Utf16LeBytes(Utf16Units(Head(s))) \o encode_utf_16_le(Tail(s))

\* The length with the byte order mark counted in.
encoded_length_bom(text_slice) == Len(encode_utf_16_bom(text_slice)) \div 2

\* The length in code points, nothing encoded.
code_point_length(text_slice) == Len(text_slice)

\* len(text_slice.encode("utf-16-le")) // 2
encoded_length(text_slice) == Len(encode_utf_16_le(text_slice)) \div 2

----------------------------------------------------------------------------
(* MessageEntity objects.                                                  *)

\* MessageEntity.__init__: the attributes, the equality key, the freeze.
MessageEntity(type, offset, length, url, user, language, custom_emoji_id) ==
    [type |-> type, offset |-> offset, length |-> length, url |-> url,
     user |-> user, language |-> language, custom_emoji_id |-> custom_emoji_id,
     _id_attrs |-> <<type, offset, length>>, _frozen |-> TRUE]

\* A copy that keeps only the required arguments.
copy_positional(h, ref) ==
    [heap |-> Append(h, MessageEntity(h[ref].type, h[ref].offset, h[ref].length,
                                      "None", "None", "None", "None")),
     ref |-> Len(h) + 1]

\* No copy at all: the same object under a second name.
copy_alias(h, ref) == [heap |-> h, ref |-> ref]

\* copy.copy(entity): a new object with every attribute of the old one,
\* _id_attrs and the frozen flag included.
copy_copy(h, ref) == [heap |-> Append(h, h[ref]), ref |-> Len(h) + 1]

\* TelegramObject._unfrozen(), entering and leaving the with block.
unfrozen_enter(h, ref) == [h EXCEPT ![ref]._frozen = FALSE]
unfrozen_exit(h, ref) == [h EXCEPT ![ref]._frozen = TRUE]

----------------------------------------------------------------------------
(* adjust_message_entities_to_utf_16, its expressions.                     *)

\* itertools.chain(*((x.offset, x.offset + x.length) for x in entities))
chain_positions(h, ents) ==
    [n \in 1..(2 * Len(ents)) |->
        IF n % 2 = 1 THEN h[ents[(n + 1) \div 2]].offset
        ELSE h[ents[n \div 2]].offset + h[ents[n \div 2]].length]

\* The positions in the order the entities give them.
unsorted_positions(h, ents) == chain_positions(h, ents)

\* positions = sorted(...)
sorted_positions(h, ents) == SortSeq(chain_positions(h, ents), LAMBDA a, b : a < b)

\* The body of the enumerate() loop with the slice always taken from 0.
walk_body_from_start(txt, pos, idx, acc, pt) ==
    LET position == pos[idx + 1]
        new_acc == acc + encoded_length(Slice(txt, 0, position))
    IN  [accumulated_length |-> new_acc,
         position_translation |->
            [p \in (DOMAIN pt) \cup {position} |->
                IF p = position THEN new_acc ELSE pt[p]]]

\* The body of the enumerate() loop, for i = idx (counted from 0).
walk_body(txt, pos, idx, acc, pt) ==
    LET position == pos[idx + 1]
        last_position == IF idx > 0 THEN pos[idx] ELSE 0
        text_slice == Slice(txt, last_position, position)
        new_acc == acc + encoded_length(text_slice)
    IN  [accumulated_length |-> new_acc,
         position_translation |->
            [p \in (DOMAIN pt) \cup {position} |->
                IF p = position THEN new_acc ELSE pt[p]]]

EmptyDict == [p \in {} |-> 0]

\* The whole enumerate() loop from i = idx on.
RECURSIVE walk_from(_, _, _, _, _)
walk_from(txt, pos, idx, acc, pt) ==
    IF idx >= Len(pos) THEN pt
    ELSE LET step == walk_body(txt, pos, idx, acc, pt)
         IN  walk_from(txt, pos, idx + 1, step.accumulated_length,
                       step.position_translation)

\* translated_positions and translated_length of one entity.
translate(pt, offset, length) ==
    [offset |-> pt[offset], length |-> pt[offset + length] - pt[offset]]

\* The function as a whole on (offset, length) pairs: what it returns for
\* the text and the spans of the objects refs in heap h.
adjusted_spans(txt, h, refs) ==
    LET pt == walk_from(txt, sorted_positions(h, refs), 0, 0, EmptyDict)
    IN  [n \in 1..Len(refs) |-> translate(pt, h[refs[n]].offset, h[refs[n]].length)]

----------------------------------------------------------------------------
(* The calls that are made.                                                *)

\* A BMP code point ("a") and one above the BMP (U+1D122, the F clef).
CodePoints == {97, 119074}

Texts == UNION {[1..n -> CodePoints] : n \in 0..MaxLen}

\* (offset, length) pairs, counted in code points; the end of a span may lie
\* one position beyond the longest text.
Spans == {sp \in (0..(MaxLen + 1)) \X (0..(MaxLen + 1)) : sp[1] + sp[2] <= MaxLen + 1}

SpanSeqs == UNION {[1..n -> Spans] : n \in 0..MaxEntities}

\* The type and the optional attributes an entity comes with.
Kinds == <<
    [type |-> "text_link", url |-> "https://telegram.org", user |-> "None",
     language |-> "None", custom_emoji_id |-> "None"],
    [type |-> "pre", url |-> "None", user |-> "None", language |-> "python",
     custom_emoji_id |-> "None"],
    [type |-> "text_mention", url |-> "None", user |-> "User(1)", language |-> "None",
     custom_emoji_id |-> "None"],
    [type |-> "custom_emoji", url |-> "None", user |-> "None", language |-> "None",
     custom_emoji_id |-> "5368324170671202286"],
    [type |-> "bold", url |-> "None", user |-> "None", language |-> "None",
     custom_emoji_id |-> "None"] >>

KindAt(n) == Kinds[((n - 1) % Len(Kinds)) + 1]

\* Where in Kinds the first entity of a call takes its kind.
FirstKinds == {1, 3}

\* The entity objects of a call: the n-th has the n-th span, and the kinds
\* follow Kinds from the first one's on.
EntityObjects(spans, first) ==
    [n \in 1..Len(spans) |->
        LET kind == KindAt(first + n - 1)
        IN  MessageEntity(kind.type, spans[n][1], spans[n][2], kind.url,
                          kind.user, kind.language, kind.custom_emoji_id)]

\* The example of the docstring: the text, and its bold, italic and
\* underline entities.
DocText == <<131861, 32, 98, 111, 108, 100, 32, 119074, 32, 105, 116, 97, 108, 105, 99,
             32, 117, 110, 100, 101, 114, 108, 105, 110, 101, 100, 58, 32,
             120537, 119586, 69709>>

DocEntities == <<
    MessageEntity("bold", 2, 4, "None", "None", "None", "None"),
    MessageEntity("italic", 9, 6, "None", "None", "None", "None"),
    MessageEntity("underline", 28, 3, "None", "None", "None", "None") >>

DocUtf16 == << <<3, 4>>, <<11, 6>>, <<30, 6>> >>

AdjustInputs ==
    {[text |-> txt, objects |-> EntityObjects(spans, first)] :
        txt \in Texts, spans \in SpanSeqs, first \in FirstKinds}
    \cup {[text |-> DocText, objects |-> DocEntities]}

None == <<>>
Some(v) == <<v>>

NoDecodeLocals ==
    /\ cls = [t \in Threads |-> "None"]
    /\ data = [t \in Threads |-> None]
    /\ ctor_kwargs = [t \in Threads |-> {}]

NoAdjustLocals ==
    /\ positions = [t \in Threads |-> <<>>]
    /\ i = [t \in Threads |-> 0]
    /\ accumulated_length = [t \in Threads |-> 0]
    /\ position_translation = [t \in Threads |-> EmptyDict]
    /\ out = [t \in Threads |-> <<>>]
    /\ j = [t \in Threads |-> 0]
    /\ entity = [t \in Threads |-> 0]
    /\ translated_positions = [t \in Threads |-> 0]
    /\ translated_length = [t \in Threads |-> 0]
    /\ new_entity = [t \in Threads |-> 0]

\* One caller holds a text and a list of frozen entities and is about to
\* call adjust_message_entities_to_utf_16.
Init ==
    /\ \E inp \in AdjustInputs :
          /\ text = inp.text
          /\ heap = inp.objects
          /\ entities = [n \in 1..Len(inp.objects) |-> n]
    /\ mapping = None
    /\ pc = [t \in Threads |-> IF t = "t1" THEN "call" ELSE "off"]
    /\ entry = [t \in Threads |-> IF t = "t1" THEN "MessageEntity" ELSE "None"]
    /\ raised = [t \in Threads |-> "None"]
    /\ result = [t \in Threads |-> None]
    /\ NoAdjustLocals
    /\ NoDecodeLocals

----------------------------------------------------------------------------
(* adjust_message_entities_to_utf_16, statement by statement.              *)

\* positions = sorted(...); accumulated_length = 0; position_translation = {}
Call(t) ==
    /\ pc[t] = "call"
    /\ entry[t] = "MessageEntity"
    /\ positions' = [positions EXCEPT ![t] = sorted_positions(heap, entities)]
    /\ accumulated_length' = [accumulated_length EXCEPT ![t] = 0]
    /\ position_translation' = [position_translation EXCEPT ![t] = EmptyDict]
    /\ i' = [i EXCEPT ![t] = 0]
    /\ pc' = [pc EXCEPT ![t] = IF Len(entities) = 0 THEN "return" ELSE "walk"]
    /\ UNCHANGED <<text, entities, heap, out, j, entity, translated_positions,
                   translated_length, new_entity, raised, mapping, entry, result>>
    /\ UNCHANGED decodeLocals

\* One turn of: for i, position in enumerate(positions): ...
Walk(t) ==
    /\ pc[t] = "walk"
    /\ i[t] < Len(positions[t])
    /\ LET step == walk_body(text, positions[t], i[t], accumulated_length[t],
                             position_translation[t])
       IN  /\ accumulated_length' =
                 [accumulated_length EXCEPT ![t] = step.accumulated_length]
           /\ position_translation' =
                 [position_translation EXCEPT ![t] = step.position_translation]
    /\ i' = [i EXCEPT ![t] = i[t] + 1]
    /\ pc' = [pc EXCEPT ![t] = IF i[t] + 1 = Len(positions[t]) THEN "lookup" ELSE "walk"]
    /\ UNCHANGED <<text, entities, heap, positions, out, j, entity,
                   translated_positions, translated_length, new_entity, raised,
                   mapping, entry, result>>
    /\ UNCHANGED decodeLocals

\* for entity in entities: translated_positions = ...; translated_length = ...
Lookup(t) ==
    /\ pc[t] = "lookup"
    /\ j[t] < Len(entities)
    /\ LET e == entities[j[t] + 1]
           tr == translate(position_translation[t], heap[e].offset, heap[e].length)
       IN  /\ entity' = [entity EXCEPT ![t] = e]
           /\ translated_positions' = [translated_positions EXCEPT ![t] = tr.offset]
           /\ translated_length' = [translated_length EXCEPT ![t] = tr.length]
    /\ j' = [j EXCEPT ![t] = j[t] + 1]
    /\ pc' = [pc EXCEPT ![t] = "copy"]
    /\ UNCHANGED <<text, entities, heap, positions, i, accumulated_length,
                   position_translation, out, new_entity, raised, mapping, entry, result>>
    /\ UNCHANGED decodeLocals

\* new_entity = copy.copy(entity)
Copy(t) ==
    /\ pc[t] = "copy"
    /\ LET c == copy_copy(heap, entity[t])
       IN  /\ heap' = c.heap
           /\ new_entity' = [new_entity EXCEPT ![t] = c.ref]
    /\ pc' = [pc EXCEPT ![t] = "unfreeze"]
    /\ UNCHANGED <<text, entities, positions, i, accumulated_length,
                   position_translation, out, j, entity, translated_positions,
                   translated_length, raised, mapping, entry, result>>
    /\ UNCHANGED decodeLocals

\* with new_entity._unfrozen():
Unfreeze(t) ==
    /\ pc[t] = "unfreeze"
    /\ heap' = unfrozen_enter(heap, new_entity[t])
    /\ pc' = [pc EXCEPT ![t] = "set_offset"]
    /\ UNCHANGED <<text, entities, raised, mapping, entry, result>>
    /\ UNCHANGED adjustLocals
    /\ UNCHANGED decodeLocals

\* new_entity.offset = translated_positions
SetOffset(t) ==
    /\ pc[t] = "set_offset"
    /\ heap' = [heap EXCEPT ![new_entity[t]].offset = translated_positions[t]]
    /\ pc' = [pc EXCEPT ![t] = "set_length"]
    /\ UNCHANGED <<text, entities, raised, mapping, entry, result>>
    /\ UNCHANGED adjustLocals
    /\ UNCHANGED decodeLocals

\* new_entity.length = translated_length
SetLength(t) ==
    /\ pc[t] = "set_length"
    /\ heap' = [heap EXCEPT ![new_entity[t]].length = translated_length[t]]
    /\ pc' = [pc EXCEPT ![t] = "freeze"]
    /\ UNCHANGED <<text, entities, raised, mapping, entry, result>>
    /\ UNCHANGED adjustLocals
    /\ UNCHANGED decodeLocals

\* The end of the with block.
Freeze(t) ==
    /\ pc[t] = "freeze"
    /\ heap' = unfrozen_exit(heap, new_entity[t])
    /\ pc' = [pc EXCEPT ![t] = "append"]
    /\ UNCHANGED <<text, entities, raised, mapping, entry, result>>
    /\ UNCHANGED adjustLocals
    /\ UNCHANGED decodeLocals

\* out.append(new_entity), and the for loop goes on or ends.
AppendOut(t) ==
    /\ pc[t] = "append"
    /\ out' = [out EXCEPT ![t] = Append(out[t], new_entity[t])]
    /\ pc' = [pc EXCEPT ![t] = IF j[t] = Len(entities) THEN "return" ELSE "lookup"]
    /\ UNCHANGED <<text, entities, heap, positions, i, accumulated_length,
                   position_translation, j, entity, translated_positions,
                   translated_length, new_entity, raised, mapping, entry, result>>
    /\ UNCHANGED decodeLocals

\* return out
Return(t) ==
    /\ pc[t] = "return"
    /\ result' = [result EXCEPT ![t] = Some(out[t])]
    /\ pc' = [pc EXCEPT ![t] = "done"]
    /\ UNCHANGED <<text, entities, heap, raised, mapping, entry>>
    /\ UNCHANGED adjustLocals
    /\ UNCHANGED decodeLocals

Next ==
    \E t \in Threads :
        \/ Call(t)
        \/ Walk(t)
        \/ Lookup(t)
        \/ Copy(t)
        \/ Unfreeze(t)
        \/ SetOffset(t)
        \/ SetLength(t)
        \/ Freeze(t)
        \/ AppendOut(t)
        \/ Return(t)

Spec == Init /\ [][Next]_vars

----------------------------------------------------------------------------
(* JSON dicts over the keys of the paid media objects.  A dict is a record *)
(* with one field per key, Absent or Present(value); a value is None or    *)
(* Some(v).                                                                *)

Keys == {"type", "photo", "video", "width", "height", "duration"}

Absent == <<>>
Present(v) == <<v>>

Has(d, key) == d[key] # Absent

\* dict.get(key)
Get(d, key) == IF Has(d, key) THEN d[key][1] ELSE None

\* not data, for a dict
IsEmpty(d) == \A key \in Keys : ~Has(d, key)

\* The dict after data.pop(key).
Pop(d, key) == [d EXCEPT ![key] = Absent]

\* The dict after data[key] = value.
Put(d, key, value) == [d EXCEPT ![key] = Present(value)]

KeysOf(d) == {key \in Keys : Has(d, key)}

----------------------------------------------------------------------------
(* The collaborators of the paid media classes.                            *)

\* _parse_data handing back the very dict it was given.
parse_data_alias(arg) == [value |-> arg, shared |-> arg # <<>>]

\* TelegramObject._parse_data: the caller's dict is copied, None stays None.
\* value is what the dict returned holds, shared whether it is the object
\* that was passed in.
parse_data(arg) == [value |-> arg, shared |-> FALSE]

\* enum.get_member(enum_cls, value, default): the member for a known value,
\* the default otherwise; the members of a string enum are their values.
get_member(members, value, default) == IF value \in members THEN value ELSE default

\* PhotoSize.de_json and Video.de_json of one JSON object.
PhotoSize_de_json(raw) == [class |-> "PhotoSize", file_id |-> raw.file_id]
Video_de_json(arg) ==
    IF arg = None THEN None ELSE Some([class |-> "Video", file_id |-> arg[1].file_id])

\* PhotoSize.de_list: the decoded objects in the order of the list, as a
\* tuple; the empty tuple for None.
PhotoSize_de_list(arg) ==
    IF arg = None THEN <<>>
    ELSE [n \in 1..Len(arg[1]) |-> PhotoSize_de_json(arg[1][n])]

\* parse_sequence_arg: a tuple of the elements, the empty tuple for None.
parse_sequence_arg(arg) == IF arg = None THEN <<>> ELSE arg[1]

----------------------------------------------------------------------------
(* The paid media classes.                                                 *)

\* constants.PaidMediaType
PaidMediaType == {"preview", "photo", "video"}

PREVIEW == "preview"
PHOTO == "photo"
VIDEO == "video"

PaidMediaClasses == {"PaidMedia", "PaidMediaPreview", "PaidMediaPhoto", "PaidMediaVideo"}

\* PaidMedia.__init__
PaidMedia_init(klass, type) ==
    [class |-> klass, type |-> get_member(PaidMediaType, type, type),
     _id_attrs |-> <<get_member(PaidMediaType, type, type)>>, _frozen |-> TRUE]

\* PaidMediaPreview.__init__
PaidMediaPreview_init(width, height, duration) ==
    LET self == PaidMedia_init("PaidMediaPreview", PREVIEW)
    IN  [class |-> self.class, type |-> self.type, width |-> width, height |-> height,
         duration |-> duration,
         _id_attrs |-> <<self.type, width, height, duration>>, _frozen |-> TRUE]

\* PaidMediaPhoto.__init__
PaidMediaPhoto_init(photo) ==
    LET self == PaidMedia_init("PaidMediaPhoto", PHOTO)
    IN  [class |-> self.class, type |-> self.type, photo |-> parse_sequence_arg(photo),
         _id_attrs |-> <<self.type, parse_sequence_arg(photo)>>, _frozen |-> TRUE]

\* PaidMediaVideo.__init__
PaidMediaVideo_init(video) ==
    LET self == PaidMedia_init("PaidMediaVideo", VIDEO)
    IN  [class |-> self.class, type |-> self.type, video |-> video,
         _id_attrs |-> <<self.type, video>>, _frozen |-> TRUE]

\* The keyword arguments a class's __init__ cannot do without.
RequiredArgs(klass) ==
    CASE klass = "PaidMedia" -> {"type"}
      [] klass = "PaidMediaPreview" -> {}
      [] klass = "PaidMediaPhoto" -> {"photo"}
      [] klass = "PaidMediaVideo" -> {"video"}

\* cls(**data), the keys __init__ does not take set aside.
Construct(klass, d) ==
    CASE klass = "PaidMedia" -> PaidMedia_init("PaidMedia", Get(d, "type")[1])
      [] klass = "PaidMediaPreview" ->
            PaidMediaPreview_init(Get(d, "width"), Get(d, "height"), Get(d, "duration"))
      [] klass = "PaidMediaPhoto" -> PaidMediaPhoto_init(Get(d, "photo"))
      [] klass = "PaidMediaVideo" -> PaidMediaVideo_init(Get(d, "video"))

\* The de_json a call on klass runs: PaidMediaPhoto and PaidMediaVideo
\* define their own, PaidMediaPreview inherits PaidMedia's.
MethodOf(klass) ==
    CASE klass = "PaidMediaPhoto" -> "PaidMediaPhoto.de_json"
      [] klass = "PaidMediaVideo" -> "PaidMediaVideo.de_json"
      [] OTHER -> "PaidMedia.de_json"

\* _class_mapping of PaidMedia.de_json
class_mapping ==
    [type \in {PREVIEW, PHOTO, VIDEO} |->
        CASE type = PREVIEW -> "PaidMediaPreview"
          [] type = PHOTO -> "PaidMediaPhoto"
          [] type = VIDEO -> "PaidMediaVideo"]

\* A return None for every falsy data, whatever the class.
returns_none_if_falsy(klass, arg) == arg = None \/ IsEmpty(arg[1])

\* PaidMedia.de_json returns None before it looks at the type:
\* data is None, or not data and cls is PaidMedia.
returns_none(klass, arg) ==
    \/ arg = None
    \/ (IsEmpty(arg[1]) /\ klass = "PaidMedia")

\* cls is PaidMedia and data.get("type") in _class_mapping
dispatches(klass, d) ==
    /\ klass = "PaidMedia"
    /\ Get(d, "type") # None
    /\ Get(d, "type")[1] \in DOMAIN class_mapping

\* The class looked up, the type left in data.
dispatch_keep_type(klass, d) ==
    IF klass = "PaidMedia" /\ Get(d, "type") # None
          /\ Get(d, "type")[1] \in DOMAIN class_mapping
    THEN [cls |-> class_mapping[Get(d, "type")[1]], data |-> d]
    ELSE [cls |-> klass, data |-> d]

\* The class looked up with PaidMediaPreview for a type not in the mapping.
dispatch_default_preview(klass, d) ==
    IF klass = "PaidMedia" /\ Get(d, "type") # None
    THEN [cls |-> IF Get(d, "type")[1] \in DOMAIN class_mapping
                  THEN class_mapping[Get(d, "type")[1]] ELSE "PaidMediaPreview",
          data |-> Pop(d, "type")]
    ELSE [cls |-> klass, data |-> d]

\* Where PaidMedia.de_json goes on and with which data: to
\* _class_mapping[data.pop("type")].de_json, or to super().de_json.
dispatch(klass, d) ==
    IF dispatches(klass, d)
    THEN [cls |-> class_mapping[Get(d, "type")[1]], data |-> Pop(d, "type")]
    ELSE [cls |-> klass, data |-> d]

----------------------------------------------------------------------------
(* The de_json calls that are made.                                        *)

TypeValues == {PREVIEW, PHOTO, VIDEO, "sticker_unknown_future_type"}

RawSizes == {[file_id |-> "small"], [file_id |-> "large"]}

RawPhotoLists == UNION {[1..n -> RawSizes] : n \in 0..MaxPhotos}

Field(values) == {Absent} \cup {Present(Some(v)) : v \in values}

Dicts ==
    [type : Field(TypeValues),
     photo : Field(RawPhotoLists),
     video : Field({[file_id |-> "clip"]}),
     width : Field({640}),
     height : Field({480}),
     duration : Field({10})]

Mappings == {None} \cup {Some(d) : d \in Dicts}

\* One caller holds a mapping, or None, and is about to call de_json on one
\* of the paid media classes.
InitDecode ==
    /\ mapping \in Mappings
    /\ \E klass \in PaidMediaClasses :
          entry = [t \in Threads |-> IF t = "t1" THEN klass ELSE "None"]
    /\ pc = [t \in Threads |-> IF t = "t1" THEN "call" ELSE "off"]
    /\ raised = [t \in Threads |-> "None"]
    /\ result = [t \in Threads |-> None]
    /\ text = <<>>
    /\ entities = <<>>
    /\ heap = <<>>
    /\ NoAdjustLocals
    /\ NoDecodeLocals

adjustState == <<text, entities, heap>>

\* The parameter data of thread t's frame names the caller's mapping: t is
\* in the method it entered by, which has not yet rebound data.
callers_dict(t) == pc[t] = MethodOf(entry[t]) /\ cls[t] = entry[t]

\* What the object named by data holds in thread t's frame.
data_of(t) == IF callers_dict(t) THEN mapping ELSE data[t]

\* The caller's mapping after thread t has left d in the dict that
\* _parse_data returned.
stored(t, parsed, d) == IF parsed.shared /\ callers_dict(t) THEN Some(d) ELSE mapping

\* entry.de_json(mapping)
DeJsonCall(t) ==
    /\ pc[t] = "call"
    /\ entry[t] \in PaidMediaClasses
    /\ cls' = [cls EXCEPT ![t] = entry[t]]
    /\ data' = [data EXCEPT ![t] = mapping]
    /\ pc' = [pc EXCEPT ![t] = MethodOf(entry[t])]
    /\ UNCHANGED <<mapping, entry, ctor_kwargs, result, raised>>
    /\ UNCHANGED adjustState
    /\ UNCHANGED adjustLocals

\* PaidMedia.de_json, run for cls[t]
PaidMedia_de_json(t) ==
    /\ pc[t] = "PaidMedia.de_json"
    /\ LET parsed == parse_data(data_of(t))
           arg == parsed.value
       IN  IF returns_none(cls[t], arg)
           THEN /\ result' = [result EXCEPT ![t] = None]
                /\ pc' = [pc EXCEPT ![t] = "done"]
                /\ UNCHANGED <<cls, data, mapping>>
           ELSE LET to == dispatch(cls[t], arg[1])
                IN  /\ cls' = [cls EXCEPT ![t] = to.cls]
                    /\ data' = [data EXCEPT ![t] = Some(to.data)]
                    /\ mapping' = stored(t, parsed, to.data)
                    /\ pc' = [pc EXCEPT ![t] =
                                 IF dispatches(cls[t], arg[1])
                                 THEN MethodOf(to.cls)
                                 ELSE "TelegramObject.de_json"]
                    /\ UNCHANGED result
    /\ UNCHANGED <<entry, ctor_kwargs, raised>>
    /\ UNCHANGED adjustState
    /\ UNCHANGED adjustLocals

\* PaidMediaPhoto.de_json
PaidMediaPhoto_de_json(t) ==
    /\ pc[t] = "PaidMediaPhoto.de_json"
    /\ LET parsed == parse_data(data_of(t))
           arg == parsed.value
       IN  IF arg = None \/ IsEmpty(arg[1])
           THEN /\ result' = [result EXCEPT ![t] = None]
                /\ pc' = [pc EXCEPT ![t] = "done"]
                /\ UNCHANGED <<data, mapping>>
           ELSE /\ data' = [data EXCEPT ![t] =
                      Some(Put(arg[1], "photo", Some(PhotoSize_de_list(Get(arg[1], "photo")))))]
                /\ mapping' = stored(t, parsed, Put(arg[1], "photo", Some(PhotoSize_de_list(Get(arg[1], "photo")))))
                /\ pc' = [pc EXCEPT ![t] = "PaidMedia.de_json"]
                /\ UNCHANGED result
    /\ UNCHANGED <<entry, cls, ctor_kwargs, raised>>
    /\ UNCHANGED adjustState
    /\ UNCHANGED adjustLocals

\* PaidMediaVideo.de_json
PaidMediaVideo_de_json(t) ==
    /\ pc[t] = "PaidMediaVideo.de_json"
    /\ LET parsed == parse_data(data_of(t))
           arg == parsed.value
       IN  IF arg = None \/ IsEmpty(arg[1])
           THEN /\ result' = [result EXCEPT ![t] = None]
                /\ pc' = [pc EXCEPT ![t] = "done"]
                /\ UNCHANGED <<data, mapping>>
           ELSE /\ data' = [data EXCEPT ![t] =
                      Some(Put(arg[1], "video", Video_de_json(Get(arg[1], "video"))))]
                /\ mapping' = stored(t, parsed, Put(arg[1], "video", Video_de_json(Get(arg[1], "video"))))
                /\ pc' = [pc EXCEPT ![t] = "PaidMedia.de_json"]
                /\ UNCHANGED result
    /\ UNCHANGED <<entry, cls, ctor_kwargs, raised>>
    /\ UNCHANGED adjustState
    /\ UNCHANGED adjustLocals

\* TelegramObject.de_json: None for None, else cls(**data); a TypeError
\* when a required argument is missing.
TelegramObject_de_json(t) ==
    /\ pc[t] = "TelegramObject.de_json"
    /\ pc' = [pc EXCEPT ![t] = "done"]
    /\ IF data[t] = None
       THEN /\ result' = [result EXCEPT ![t] = None]
            /\ UNCHANGED <<ctor_kwargs, raised>>
       ELSE /\ ctor_kwargs' = [ctor_kwargs EXCEPT ![t] = KeysOf(data[t][1])]
            /\ IF RequiredArgs(cls[t]) \subseteq KeysOf(data[t][1])
               THEN /\ result' = [result EXCEPT ![t] = Some(Construct(cls[t], data[t][1]))]
                    /\ UNCHANGED raised
               ELSE /\ raised' = [raised EXCEPT ![t] = "TypeError"]
                    /\ UNCHANGED result
    /\ UNCHANGED <<mapping, entry, cls, data>>
    /\ UNCHANGED adjustState
    /\ UNCHANGED adjustLocals

NextDecode ==
    \E t \in Threads :
        \/ DeJsonCall(t)
        \/ PaidMedia_de_json(t)
        \/ PaidMediaPhoto_de_json(t)
        \/ PaidMediaVideo_de_json(t)
        \/ TelegramObject_de_json(t)

SpecDecode == InitDecode /\ [][NextDecode]_vars

----------------------------------------------------------------------------
(* Two threads that call at once, on the same arguments.                   *)

SharedSpanSeqs == UNION {[1..n -> Spans] : n \in 0..MaxShared}

\* The texts and entity lists two threads share: the longest texts, the
\* entities of the first kind on.
SharedAdjustInputs ==
    {[text |-> txt, objects |-> EntityObjects(spans, 1)] :
        txt \in [1..MaxLen -> CodePoints], spans \in SharedSpanSeqs}

\* The text and the entity of the thread that calls
\* adjust_message_entities_to_utf_16 while the other one calls de_json.
MixedAdjustInput ==
    [text |-> <<119074, 97>>,
     objects |-> <<MessageEntity("text_link", 1, 1, "https://telegram.org",
                                 "None", "None", "None")>>]

\* The dicts of the thread that calls PaidMedia.de_json meanwhile.
MixedMappings ==
    {Some([type |-> Present(Some(tv)), photo |-> ph, video |-> Absent,
           width |-> Absent, height |-> Absent, duration |-> Absent]) :
        tv \in TypeValues, ph \in {Absent, Present(Some(<<[file_id |-> "small"]>>))}}

\* The mappings two threads share: None, and the dicts without the keys
\* "height" and "duration".
SharedMappings ==
    {m \in Mappings : m = None \/ (~Has(m[1], "height") /\ ~Has(m[1], "duration"))}

\* Both threads are about to call: both adjust_message_entities_to_utf_16
\* on one text and one list, or both de_json on one mapping, or one the
\* one and one the other.
InitConc ==
    /\ pc = [t \in Threads |-> "call"]
    /\ raised = [t \in Threads |-> "None"]
    /\ result = [t \in Threads |-> None]
    /\ NoAdjustLocals
    /\ NoDecodeLocals
    /\ \/ /\ \E inp \in SharedAdjustInputs :
                /\ text = inp.text
                /\ heap = inp.objects
                /\ entities = [n \in 1..Len(inp.objects) |-> n]
          /\ mapping = None
          /\ entry = [t \in Threads |-> "MessageEntity"]
       \/ /\ text = <<>>
          /\ heap = <<>>
          /\ entities = <<>>
          /\ mapping \in SharedMappings
          /\ entry \in [Threads -> PaidMediaClasses]
       \/ /\ text = MixedAdjustInput.text
          /\ heap = MixedAdjustInput.objects
          /\ entities = [n \in 1..Len(MixedAdjustInput.objects) |-> n]
          /\ mapping \in MixedMappings
          /\ entry = [t \in Threads |-> IF t = "t1" THEN "MessageEntity" ELSE "PaidMedia"]

\* Any thread takes its next step.
NextConc ==
    \/ Next
    \/ NextDecode

SpecConc == InitConc /\ [][NextConc]_vars

----------------------------------------------------------------------------
(* What the claims speak of.                                               *)

\* Thread t has returned from adjust_message_entities_to_utf_16.
AdjustDone(t) == pc[t] = "done" /\ entry[t] = "MessageEntity"

\* Every span of the call lies within the text.
InRange == \A n \in 1..Len(entities) :
              heap[entities[n]].offset + heap[entities[n]].length <= Len(text)

NonBmp(s) == Cardinality({n \in 1..Len(s) : s[n] >= 65536})

AllBmp(s) == \A n \in 1..Len(s) : s[n] < 65536

\* The (offset, length) pairs of the objects refs.
SpansOf(refs) == [n \in 1..Len(refs) |-> <<heap[refs[n]].offset, heap[refs[n]].length>>]

\* C1: for spans within the text, the n-th returned span starts at the
\* number of UTF-16 code units of text[0:offset] and is as long as the
\* number of UTF-16 code units of text[offset:offset+length], that is the
\* code point counts plus the non-BMP code points before, respectively
\* inside, the span; the docstring's example comes out as (3,4),(11,6),(30,6).
C1_Utf16OffsetsAndLengths ==
    \A t \in Threads :
        (AdjustDone(t) /\ InRange) =>
            /\ Len(out[t]) = Len(entities)
            /\ \A n \in 1..Len(entities) :
                  LET e == heap[entities[n]]
                      o == heap[out[t][n]]
                  IN  /\ o.offset = e.offset + NonBmp(SubSeq(text, 1, e.offset))
                      /\ o.length = e.length
                                    + NonBmp(SubSeq(text, e.offset + 1, e.offset + e.length))
            /\ (text = DocText => SpansOf(out[t]) = DocUtf16)

\* A call returned a span that starts later and is longer than it was in
\* code points.
C1_Witness ==
    \E t \in Threads :
        /\ AdjustDone(t)
        /\ InRange
        /\ \E n \in 1..Len(entities) :
              /\ heap[out[t][n]].offset > heap[entities[n]].offset
              /\ heap[out[t][n]].length > heap[entities[n]].length

\* C2: a call with a span that reaches beyond the end of the text ends with
\* an exception.
C2_OutOfRangeRaises ==
    \A t \in Threads : (AdjustDone(t) /\ ~InRange) => raised[t] # "None"

\* C3: the equality key of every frozen entity is its (type, offset, length).
C3_IdAttrsAreTypeOffsetLength ==
    \A ref \in 1..Len(heap) :
        heap[ref]._frozen =>
            heap[ref]._id_attrs = <<heap[ref].type, heap[ref].offset, heap[ref].length>>

\* C4: the call returns as many entities as it was given, in their order,
\* the n-th with the type, url, user, language and custom_emoji_id of the
\* n-th given; so none for none.
C4_SameEntitiesInOrder ==
    \A t \in Threads :
        AdjustDone(t) =>
            /\ result[t] = Some(out[t])
            /\ Len(out[t]) = Len(entities)
            /\ \A n \in 1..Len(entities) :
                  LET e == heap[entities[n]]
                      o == heap[out[t][n]]
                  IN  /\ o.type = e.type
                      /\ o.url = e.url
                      /\ o.user = e.user
                      /\ o.language = e.language
                      /\ o.custom_emoji_id = e.custom_emoji_id

\* A call returned two entities, the first with a url or a user, moved.
C4_Witness ==
    \E t \in Threads :
        /\ AdjustDone(t)
        /\ Len(out[t]) = 2
        /\ (heap[out[t][1]].url # "None" \/ heap[out[t][1]].user # "None")
        /\ heap[out[t][2]].type # heap[out[t][1]].type
        /\ heap[out[t][1]].offset # heap[entities[1]].offset

\* C5: no step of a call changes the text, the list it was given or an
\* object of that list, and no object put into out is one of that list.
C5_ArgumentsNotMutated ==
    [][ /\ text' = text
        /\ entities' = entities
        /\ \A ref \in Range(entities) : heap'[ref] = heap[ref]
        /\ \A t \in Threads : Range(out'[t]) \cap Range(entities') = {}
      ]_vars

\* A call returned an entity whose offset and length it had to change.
C5_Witness ==
    \E t \in Threads :
        /\ AdjustDone(t)
        /\ \E n \in 1..Len(out[t]) :
              /\ heap[out[t][n]].offset # heap[entities[n]].offset
              /\ heap[out[t][n]].length # heap[entities[n]].length
              /\ heap[out[t][n]]._frozen
              /\ heap[entities[n]]._frozen

\* C10: for a text of BMP code points only and spans within it, the
\* returned offsets and lengths are the given ones, and the function applied
\* to what it returned gives the same again.
C10_BmpIdentity ==
    \A t \in Threads :
        (AdjustDone(t) /\ InRange /\ AllBmp(text)) =>
            /\ SpansOf(out[t]) = SpansOf(entities)
            /\ LET again == adjusted_spans(text, heap, out[t])
               IN  \A n \in 1..Len(out[t]) :
                      <<again[n].offset, again[n].length>> = SpansOf(out[t])[n]

\* A call returned for a text of two BMP code points and a span over one.
C10_Witness ==
    \E t \in Threads :
        /\ AdjustDone(t)
        /\ InRange
        /\ AllBmp(text)
        /\ Len(text) >= 2
        /\ \E n \in 1..Len(out[t]) :
              heap[out[t][n]].offset >= 1 /\ heap[out[t][n]].length >= 1

\* Thread t has come back from de_json, with a result or an exception.
DecodeDone(t) == pc[t] = "done" /\ entry[t] \in PaidMediaClasses

\* The call was given a dict with at least one key.
NonEmptyMapping == mapping # None /\ ~IsEmpty(mapping[1])

\* The call was given no dict or one without keys.
NullOrEmptyMapping == mapping = None \/ IsEmpty(mapping[1])

\* C6, as claimed: de_json returns None for None and for the empty dict, on
\* PaidMedia and on each of PaidMediaPreview, PaidMediaPhoto, PaidMediaVideo.
C6_NoneForNullOrEmpty ==
    \A t \in Threads :
        (DecodeDone(t) /\ NullOrEmptyMapping) =>
            (result[t] = None /\ raised[t] = "None")

\* C6, amended: de_json returns None for None on every class and for the
\* empty dict on PaidMedia, PaidMediaPhoto and PaidMediaVideo; on
\* PaidMediaPreview the empty dict gives a PaidMediaPreview whose width,
\* height and duration are None.
C6_NoneForNullAndEmptyButPreview ==
    \A t \in Threads :
        (DecodeDone(t) /\ NullOrEmptyMapping) =>
            /\ raised[t] = "None"
            /\ IF mapping # None /\ entry[t] = "PaidMediaPreview"
               THEN /\ result[t] # None
                    /\ result[t][1].class = "PaidMediaPreview"
                    /\ result[t][1].type = PREVIEW
                    /\ result[t][1].width = None
                    /\ result[t][1].height = None
                    /\ result[t][1].duration = None
               ELSE result[t] = None

\* PaidMediaPreview.de_json came back from the empty dict.
C6_Witness ==
    \E t \in Threads :
        /\ DecodeDone(t)
        /\ entry[t] = "PaidMediaPreview"
        /\ mapping # None
        /\ IsEmpty(mapping[1])

\* The dict has a type of the mapping and, for a photo or a video, the key
\* of that name.
VariantMapping ==
    /\ mapping # None
    /\ Get(mapping[1], "type") # None
    /\ Get(mapping[1], "type")[1] \in PaidMediaType
    /\ (Get(mapping[1], "type")[1] = PHOTO => Has(mapping[1], "photo"))
    /\ (Get(mapping[1], "type")[1] = VIDEO => Has(mapping[1], "video"))

\* C7: PaidMedia.de_json of a dict with type "preview", "photo" or "video"
\* and that variant's fields returns an instance of just that variant with
\* that type; the variant's de_json and its constructor get no "type" key;
\* the photo of a PaidMediaPhoto is the tuple of the decoded sizes in the
\* order of the list.
C7_DispatchToVariant ==
    \A t \in Threads :
        (entry[t] = "PaidMedia" /\ VariantMapping) =>
            /\ (cls[t] \notin {"None", "PaidMedia"} => ~Has(data[t][1], "type"))
            /\ DecodeDone(t) =>
                  /\ raised[t] = "None"
                  /\ result[t] # None
                  /\ result[t][1].class = class_mapping[Get(mapping[1], "type")[1]]
                  /\ result[t][1].type = Get(mapping[1], "type")[1]
                  /\ result[t][1]._frozen
                  /\ "type" \notin ctor_kwargs[t]
                  /\ RequiredArgs(result[t][1].class) \subseteq ctor_kwargs[t]
                  /\ (result[t][1].class = "PaidMediaPhoto" =>
                         LET raw == Get(mapping[1], "photo")[1]
                         IN  /\ Len(result[t][1].photo) = Len(raw)
                             /\ \A n \in 1..Len(raw) :
                                   result[t][1].photo[n] =
                                       [class |-> "PhotoSize", file_id |-> raw[n].file_id])

\* PaidMedia.de_json returned a PaidMediaPhoto of two different sizes.
C7_Witness ==
    \E t \in Threads :
        /\ DecodeDone(t)
        /\ entry[t] = "PaidMedia"
        /\ VariantMapping
        /\ result[t] # None
        /\ result[t][1].class = "PaidMediaPhoto"
        /\ Len(result[t][1].photo) = 2
        /\ result[t][1].photo[1] # result[t][1].photo[2]

\* The dict has a type that is not of the mapping.
UnknownTypeMapping ==
    /\ mapping # None
    /\ Get(mapping[1], "type") # None
    /\ Get(mapping[1], "type")[1] \notin PaidMediaType

\* C8: PaidMedia.de_json of a dict whose type is none of "preview", "photo",
\* "video" raises nothing and returns a PaidMedia, no variant, whose type is
\* the string of the dict.
C8_UnknownTypeGivesBase ==
    \A t \in Threads :
        (DecodeDone(t) /\ entry[t] = "PaidMedia" /\ UnknownTypeMapping) =>
            /\ raised[t] = "None"
            /\ result[t] # None
            /\ result[t][1].class = "PaidMedia"
            /\ result[t][1].type = Get(mapping[1], "type")[1]
            /\ result[t][1]._id_attrs = <<Get(mapping[1], "type")[1]>>

\* PaidMedia.de_json came back from a dict with an unknown type and a photo.
C8_Witness ==
    \E t \in Threads :
        /\ DecodeDone(t)
        /\ entry[t] = "PaidMedia"
        /\ UnknownTypeMapping
        /\ Has(mapping[1], "photo")
        /\ result[t] # None

\* C9: PaidMedia.de_json of a dict that is not empty returns an instance or
\* raises; it does not return None.
C9_NoneOnlyForNullOrEmpty ==
    \A t \in Threads :
        (DecodeDone(t) /\ entry[t] = "PaidMedia" /\ NonEmptyMapping) =>
            (result[t] # None \/ raised[t] # "None")

----------------------------------------------------------------------------
(* The boundary walk and the deduplicated boundary list.                   *)

\* The elements of a set of numbers in ascending order, each once.
RECURSIVE AscendingSeq(_)
AscendingSeq(S) ==
    IF S = {} THEN <<>>
    ELSE LET least == CHOOSE m \in S : \A n \in S : m <= n
         IN  <<least>> \o AscendingSeq(S \ {least})

\* The boundaries of the call, sorted and deduplicated.
DedupBoundaries ==
    AscendingSeq({heap[entities[n]].offset : n \in 1..Len(entities)}
                 \cup {heap[entities[n]].offset + heap[entities[n]].length :
                          n \in 1..Len(entities)})

\* UTF-16 code units of s[a:b]: one per code point and one more for each
\* above the BMP.
UnitsBetween(s, a, b) == Len(Slice(s, a, b)) + NonBmp(Slice(s, a, b))

\* The mapping position -> running count of a walk over the ascending list
\* ps of distinct positions, from its idx-th element on.
RECURSIVE DedupWalk(_, _, _, _, _)
DedupWalk(s, ps, idx, count, map) ==
    IF idx > Len(ps) THEN map
    ELSE LET q == IF idx > 1 THEN ps[idx - 1] ELSE 0
             now == count + UnitsBetween(s, q, ps[idx])
         IN  DedupWalk(s, ps, idx + 1, now,
                       [p \in (DOMAIN map) \cup {ps[idx]} |->
                           IF p = ps[idx] THEN now ELSE map[p]])

\* Thread t is in adjust_message_entities_to_utf_16 with the walk behind it.
WalkDone(t) ==
    /\ entry[t] = "MessageEntity"
    /\ pc[t] \in {"lookup", "copy", "unfreeze", "set_offset", "set_length", "freeze",
                  "append", "return", "done"}

\* C12: the mapping the walk has built over the sorted list, repeats and
\* all, is the mapping a walk over the sorted and deduplicated list builds;
\* it does not decrease with the position; the offset and the end of
\* every span are keys of it.
C12_WalkIsDedupWalk ==
    \A t \in Threads :
        WalkDone(t) =>
            LET pt == position_translation[t]
            IN  /\ pt = DedupWalk(text, DedupBoundaries, 1, 0, EmptyDict)
                /\ \A p \in DOMAIN pt : \A q \in DOMAIN pt : p <= q => pt[p] <= pt[q]
                /\ \A n \in 1..Len(entities) :
                      /\ heap[entities[n]].offset \in DOMAIN pt
                      /\ heap[entities[n]].offset + heap[entities[n]].length \in DOMAIN pt

\* A walk is over in which a position after a non-BMP code point came up
\* more than once.
C12_Witness ==
    \E t \in Threads :
        /\ WalkDone(t)
        /\ \E a \in 1..Len(positions[t]) : \E b \in 1..Len(positions[t]) :
              /\ a < b
              /\ positions[t][a] = positions[t][b]
              /\ position_translation[t][positions[t][a]] > positions[t][a]

----------------------------------------------------------------------------
(* What a call returns when it runs alone.                                 *)

\* The n-th entity adjust_message_entities_to_utf_16 returns: the n-th
\* given, with the offset and length the function as a whole computes.
AdjustAlone(n) ==
    LET spans == adjusted_spans(text, heap, entities)
    IN  [heap[entities[n]] EXCEPT !.offset = spans[n].offset, !.length = spans[n].length]

\* TelegramObject.de_json to its end.
ConstructAlone(klass, d) ==
    IF RequiredArgs(klass) \subseteq KeysOf(d)
    THEN [result |-> Some(Construct(klass, d)), raised |-> "None"]
    ELSE [result |-> None, raised |-> "TypeError"]

\* PaidMedia.de_json to its end, run for a subclass.
SubclassAlone(klass, arg) ==
    IF returns_none(klass, arg)
    THEN [result |-> None, raised |-> "None"]
    ELSE ConstructAlone(klass, arg[1])

\* The de_json of klass to its end, klass not PaidMedia.
VariantAlone(klass, arg) ==
    CASE klass = "PaidMediaPhoto" ->
            IF arg = None \/ IsEmpty(arg[1])
            THEN [result |-> None, raised |-> "None"]
            ELSE SubclassAlone(klass,
                     Some(Put(arg[1], "photo", Some(PhotoSize_de_list(Get(arg[1], "photo"))))))
      [] klass = "PaidMediaVideo" ->
            IF arg = None \/ IsEmpty(arg[1])
            THEN [result |-> None, raised |-> "None"]
            ELSE SubclassAlone(klass,
                     Some(Put(arg[1], "video", Video_de_json(Get(arg[1], "video")))))
      [] OTHER -> SubclassAlone(klass, arg)

\* klass.de_json(arg) to its end.
DeJsonAlone(klass, arg) ==
    IF klass # "PaidMedia" THEN VariantAlone(klass, arg)
    ELSE IF returns_none(klass, arg) THEN [result |-> None, raised |-> "None"]
    ELSE IF dispatches(klass, arg[1])
         THEN VariantAlone(dispatch(klass, arg[1]).cls, Some(dispatch(klass, arg[1]).data))
         ELSE ConstructAlone(klass, arg[1])

\* The objects thread t has made: the copy in its hands and those in out.
Made(t) == Range(out[t]) \cup ({new_entity[t]} \ {0})

\* Thread t is inside its with block.
InWithBlock(t) == pc[t] \in {"set_offset", "set_length", "freeze"}

\* C11: whatever the order of the steps of calls that run at once on the
\* same arguments, a step changes neither the text, the list, the mapping
\* nor an object of the list; it changes at most the copy the stepping
\* thread has in its hands, which no other thread has made or refers to; an
\* object is unfrozen only while the one thread that made it is inside its
\* with block; and every call that ends returns what it returns alone,
\* and that stays its result.
C11_NoInterference ==
    [][ /\ text' = text
        /\ entities' = entities
        /\ mapping' = mapping
        /\ \A ref \in Range(entities) : heap'[ref] = heap[ref]
        /\ \A ref \in 1..Len(heap) :
              heap'[ref] # heap[ref] =>
                 \E t \in Threads :
                    /\ pc'[t] # pc[t]
                    /\ new_entity[t] = ref
                    /\ \A u \in Threads \ {t} : ref \notin Made(u) /\ entity[u] # ref
        /\ \A t \in Threads :
              /\ Made(t)' \cap Range(entities') = {}
              /\ \A u \in Threads \ {t} : Made(t)' \cap Made(u)' = {}
              /\ entity'[t] \in Range(entities') \cup {0}
        /\ \A ref \in 1..Len(heap') :
              ~heap'[ref]._frozen =>
                 /\ ref \notin Range(entities')
                 /\ \E t \in Threads : InWithBlock(t)' /\ new_entity'[t] = ref
        /\ \A t \in Threads :
              /\ (pc[t] # "done" /\ AdjustDone(t)') =>
                    /\ raised'[t] = "None"
                    /\ result'[t] = Some(out'[t])
                    /\ Len(out'[t]) = Len(entities')
                    /\ \A n \in 1..Len(entities) : heap'[out'[t][n]] = AdjustAlone(n)
              /\ (pc[t] # "done" /\ DecodeDone(t)') =>
                    /\ result'[t] = DeJsonAlone(entry'[t], mapping').result
                    /\ raised'[t] = DeJsonAlone(entry'[t], mapping').raised
              /\ pc[t] = "done" => (result'[t] = result[t] /\ raised'[t] = raised[t])
      ]_vars

\* Both threads are inside their with blocks at once, each about to write
\* to its copy of the same entity a new offset.
C11_Witness ==
    /\ pc["t1"] = "set_length"
    /\ pc["t2"] = "set_offset"
    /\ entity["t1"] = entity["t2"]
    /\ new_entity["t1"] # new_entity["t2"]
    /\ translated_positions["t2"] # heap[entity["t2"]].offset

====
